---- MODULE Spec2Model ----
(***************************************************************************)
(* OnceVec<T> (src/src/once_vec.rs): a vector of write-once slots.         *)
(*                                                                         *)
(*   vec              : Vec<UnsafeCell<MaybeUninit<T>>>   the storage       *)
(*   once             : Vec<Once>                         the gates         *)
(*   elements_written : AtomicUsize                       the counter       *)
(*                                                                         *)
(* try_write(&self) and as_slice(&self) take a shared reference and are    *)
(* run by the threads of Threads, one atomic step at a time.  Every other  *)
(* operation takes `&mut self` or `self`: the borrow checker admits it     *)
(* only while no shared call is in flight, so it is one atomic action      *)
(* guarded by AllIdle.                                                     *)
(*                                                                         *)
(* Indices are the 0-based indices of the source; slot i of the source is  *)
(* element i+1 of the sequences.                                           *)
(***************************************************************************)
EXTENDS Integers, Sequences, FiniteSets, TLC

\* Bounds of the model.
MaxLen == 2
NumThreads == 2
MaxVal == 2
MaxSpare == 1

\* MaybeUninit::uninit(): storage that holds no T.
Uninit == 0

Threads == 1..NumThreads
Values == 1..MaxVal
Indices == 0..MaxLen

\* The largest capacity the storage can have.
MaxCapacity == MaxLen + MaxSpare

VARIABLES
  vec,              \* storage: sequence over Values \cup {Uninit}
  once,             \* gates: sequence over {"INCOMPLETE","RUNNING","COMPLETE"}
  elements_written, \* the AtomicUsize counter
  capacity,         \* vec.capacity(), what capacity() returns
  needs_drop,       \* whether T has drop glue (a type parameter, fixed by Init)
  pc,               \* pc[t]: where thread t is inside try_write
  idx,              \* idx[t]: the index argument of t's call
  val,              \* val[t]: the value argument of t's call
  once_check,       \* once_check[t]: the local flag of try_write
  seen,             \* seen[t]: slots whose store happens-before t's next step
  released,         \* released[i+1]: what the release of gate i published
  ret,              \* what the last step returned to its caller, if it was a return
  okCalls,          \* okCalls[i+1]: number of try_write calls on slot i that returned Ok
  given,            \* given[i+1]: the value handed to slot i by the operation that set it
  origin,           \* origin[i+1]: "uninit" or "init", how slot i was created
  leaked,           \* the last step discarded a set slot's value without T's destructor
  uninit_dropped,   \* the last step ran T's destructor on storage whose gate was not set
  aborted,          \* the process died
  dropped           \* the container was dropped or consumed

vars == << vec, once, elements_written, capacity, needs_drop, pc, idx, val, once_check,
           seen, released, ret, okCalls, given, origin,
           leaked, uninit_dropped, aborted, dropped >>

container == << vec, once, elements_written >>
ghost == << okCalls, given, origin >>

----------------------------------------------------------------------------
\* Sequence helpers: Vec::insert, Vec::remove, Vec::truncate on 0-based indices.

Min(a, b) == IF a < b THEN a ELSE b

\* Faulty variant of InsertAt that puts the element in front whatever the index.
InsertAt_Front(s, i, e) == << e >> \o s

InsertAt(s, i, e) == SubSeq(s, 1, i) \o << e >> \o SubSeq(s, i + 1, Len(s))

\* Faulty variant of RemoveAt that always takes the last element away.
RemoveAt_Last(s, i) == SubSeq(s, 1, Len(s) - 1)

RemoveAt(s, i) == SubSeq(s, 1, i) \o SubSeq(s, i + 2, Len(s))

\* Faulty variant of TruncateTo that cuts one element more than asked.
TruncateTo_OneMore(s, n) == SubSeq(s, 1, Min(n, Len(s)) - 1)

TruncateTo(s, n) == SubSeq(s, 1, Min(n, Len(s)))

Repeat(e, n) == [k \in 1..n |-> e]

\* Once::is_completed
is_completed(o) == o = "COMPLETE"

\* The set of 0-based indices whose gate is set.
SetSlots(o) == {i \in 0..(Len(o) - 1) : is_completed(o[i + 1])}

\* Faulty variant of elements_written_until that counts every gate.
elements_written_until_All(until) ==
  Cardinality({k \in 1..Len(once) : is_completed(once[k])})

\* OnceVec::elements_written_until
elements_written_until(until) ==
  Cardinality({k \in 1..Min(until, Len(once)) : is_completed(once[k])})

\* OnceVec::is_fully_written: one relaxed load against the gate vector's length.
is_fully_written == elements_written = Len(once)

AllIdle == \A t \in Threads : pc[t] = "idle"

Alive == ~aborted /\ ~dropped

\* What an operation returned: the operation, the kind of result ("Ok", "Err",
\* "Some", "NoneOpt", "Raw", "Unit", "Panic"), and the value or slice in it.
\* `by` is the calling thread of a call on `&self`, 0 for a call on `&mut self`;
\* `arg` holds the arguments a call on `&mut self` was made with.
NoRet ==
  [op |-> "none", by |-> 0, arg |-> << >>, kind |-> "None", value |-> Uninit,
   data |-> << >>]

Ret(o, a, k, v) ==
  [op |-> o, by |-> 0, arg |-> a, kind |-> k, value |-> v, data |-> << >>]

RetBy(t, o, k, d) ==
  [op |-> o, by |-> t, arg |-> << >>, kind |-> k, value |-> Uninit, data |-> d]

RetData(o, k, d) ==
  [op |-> o, by |-> 0, arg |-> << >>, kind |-> k, value |-> Uninit, data |-> d]

----------------------------------------------------------------------------
\* Construction: new() and with_capacity(c) (no slot, capacity c, 0 for new),
\* with_uninit_len(n) (collected from an iterator of exactly n cells).

Init ==
  \E n \in 0..MaxLen :
    /\ vec = Repeat(Uninit, n)
    /\ capacity \in (IF n = 0 THEN 0..MaxCapacity ELSE {n})
    /\ once = Repeat("INCOMPLETE", n)
    /\ elements_written = 0
    /\ needs_drop \in BOOLEAN
    /\ pc = [t \in Threads |-> "idle"]
    /\ idx = [t \in Threads |-> 0]
    /\ val = [t \in Threads |-> Uninit]
    /\ once_check = [t \in Threads |-> FALSE]
    /\ seen = [t \in Threads |-> {}]
    /\ released = Repeat({}, n)
    /\ ret = NoRet
    /\ okCalls = Repeat(0, n)
    /\ given = Repeat(Uninit, n)
    /\ origin = Repeat("uninit", n)
    /\ leaked = FALSE
    /\ uninit_dropped = FALSE
    /\ aborted = FALSE
    /\ dropped = FALSE

----------------------------------------------------------------------------
\* try_write(&self, index, val), one step per atomic access.

\* A step that runs no destructor and discards nothing.
Quiet ==
  /\ leaked' = FALSE
  /\ uninit_dropped' = FALSE

\* `self.once[index]`: the bounds check of the indexing panics before anything
\* else happens; otherwise the call reaches call_once.
TryWriteCall(t, i, v) ==
  /\ Alive
  /\ pc[t] = "idle"
  /\ IF i < Len(once)
       THEN /\ pc' = [pc EXCEPT ![t] = "call_once"]
            /\ idx' = [idx EXCEPT ![t] = i]
            /\ val' = [val EXCEPT ![t] = v]
            /\ ret' = NoRet
       ELSE /\ ret' = RetBy(t, "try_write", "Panic", << >>)
            /\ UNCHANGED << pc, idx, val >>
  /\ once_check' = [once_check EXCEPT ![t] = FALSE]
  /\ Quiet
  /\ UNCHANGED << container, needs_drop, capacity, seen, released, ghost, aborted,
                  dropped >>

\* call_once finds the gate INCOMPLETE and takes it (INCOMPLETE -> RUNNING):
\* this caller will run the closure.
CallOnceBegin(t) ==
  /\ Alive
  /\ pc[t] = "call_once"
  /\ once[idx[t] + 1] = "INCOMPLETE"
  /\ once' = [once EXCEPT ![idx[t] + 1] = "RUNNING"]
  /\ pc' = [pc EXCEPT ![t] = "closure"]
  /\ ret' = NoRet
  /\ Quiet
  /\ UNCHANGED << vec, elements_written, needs_drop, capacity, idx, val, once_check,
                  seen, released, ghost, aborted, dropped >>

\* call_once finds the gate COMPLETE (an acquire load): the closure is not run.
\* A caller that finds the gate RUNNING waits: no step of it is enabled.
CallOnceCompleted(t) ==
  /\ Alive
  /\ pc[t] = "call_once"
  /\ is_completed(once[idx[t] + 1])
  /\ pc' = [pc EXCEPT ![t] = "check"]
  /\ seen' = [seen EXCEPT ![t] = @ \cup released[idx[t] + 1]]
  /\ ret' = NoRet
  /\ Quiet
  /\ UNCHANGED << container, needs_drop, capacity, idx, val, once_check, released,
                  ghost, aborted, dropped >>

\* Faulty variant of Closure that sets the flag and never stores the value.
Closure_SkipStore(t) ==
  /\ Alive
  /\ pc[t] = "closure"
  /\ uninit_dropped' = needs_drop
  /\ leaked' = FALSE
  /\ ret' = NoRet
  /\ \/ /\ once_check' = [once_check EXCEPT ![t] = TRUE]
        /\ seen' = [seen EXCEPT ![t] = @ \cup {idx[t]}]
        /\ pc' = [pc EXCEPT ![t] = "complete"]
        /\ UNCHANGED << vec, aborted >>
     \/ /\ needs_drop
        /\ aborted' = TRUE
        /\ UNCHANGED << vec, once_check, seen, pc >>
  /\ UNCHANGED << once, elements_written, needs_drop, capacity, idx, val, released,
                  ghost, dropped >>

\* The closure: `*element = val; once_check = true`.  The assignment through
\* `*mut T` first runs T's destructor on what the slot held, which is
\* uninitialized storage; with drop glue that is undefined behaviour, whose
\* outcomes are taken to be: nothing observable happens, or the process dies.
Closure(t) ==
  /\ Alive
  /\ pc[t] = "closure"
  /\ uninit_dropped' = needs_drop
  /\ leaked' = FALSE
  /\ ret' = NoRet
  /\ \/ /\ vec' = [vec EXCEPT ![idx[t] + 1] = val[t]]
        /\ once_check' = [once_check EXCEPT ![t] = TRUE]
        /\ seen' = [seen EXCEPT ![t] = @ \cup {idx[t]}]
        /\ pc' = [pc EXCEPT ![t] = "complete"]
        /\ UNCHANGED aborted
     \/ /\ needs_drop
        /\ aborted' = TRUE
        /\ UNCHANGED << vec, once_check, seen, pc >>
  /\ UNCHANGED << once, elements_written, needs_drop, capacity, idx, val, released,
                  ghost, dropped >>

\* The closure has returned: call_once sets the gate COMPLETE with release
\* ordering, publishing everything that happens-before it.
CallOnceFinish(t) ==
  /\ Alive
  /\ pc[t] = "complete"
  /\ once' = [once EXCEPT ![idx[t] + 1] = "COMPLETE"]
  /\ released' = [released EXCEPT ![idx[t] + 1] = seen[t]]
  /\ pc' = [pc EXCEPT ![t] = "check"]
  /\ ret' = NoRet
  /\ Quiet
  /\ UNCHANGED << vec, elements_written, needs_drop, capacity, idx, val, once_check,
                  seen, ghost, aborted, dropped >>

\* Faulty variant of TryWriteReturn that returns Ok without fetch_add.
TryWriteReturn_NoCount(t) ==
  /\ Alive
  /\ pc[t] = "check"
  /\ IF once_check[t]
       THEN /\ ret' = RetBy(t, "try_write", "Ok", << >>)
            /\ okCalls' = [okCalls EXCEPT ![idx[t] + 1] = @ + 1]
            /\ given' = [given EXCEPT ![idx[t] + 1] = val[t]]
       ELSE /\ ret' = RetBy(t, "try_write", "Err", << >>)
            /\ UNCHANGED << okCalls, given >>
  /\ pc' = [pc EXCEPT ![t] = "idle"]
  /\ idx' = [idx EXCEPT ![t] = 0]
  /\ val' = [val EXCEPT ![t] = Uninit]
  /\ once_check' = [once_check EXCEPT ![t] = FALSE]
  /\ Quiet
  /\ UNCHANGED << vec, once, elements_written, needs_drop, capacity, seen, released,
                  origin, aborted, dropped >>

\* Faulty variant of TryWriteReturn that runs fetch_add on the error path too.
TryWriteReturn_AlwaysCount(t) ==
  /\ Alive
  /\ pc[t] = "check"
  /\ IF once_check[t]
       THEN /\ elements_written' = elements_written + 1
            /\ ret' = RetBy(t, "try_write", "Ok", << >>)
            /\ okCalls' = [okCalls EXCEPT ![idx[t] + 1] = @ + 1]
            /\ given' = [given EXCEPT ![idx[t] + 1] = val[t]]
       ELSE /\ elements_written' = elements_written + 1
            /\ ret' = RetBy(t, "try_write", "Err", << >>)
            /\ UNCHANGED << okCalls, given >>
  /\ pc' = [pc EXCEPT ![t] = "idle"]
  /\ idx' = [idx EXCEPT ![t] = 0]
  /\ val' = [val EXCEPT ![t] = Uninit]
  /\ once_check' = [once_check EXCEPT ![t] = FALSE]
  /\ Quiet
  /\ UNCHANGED << vec, once, needs_drop, capacity, seen, released, origin, aborted,
                  dropped >>

\* `if once_check == true { fetch_add(1, Relaxed); Ok(()) } else { Err }`
TryWriteReturn(t) ==
  /\ Alive
  /\ pc[t] = "check"
  /\ IF once_check[t]
       THEN /\ elements_written' = elements_written + 1
            /\ ret' = RetBy(t, "try_write", "Ok", << >>)
            /\ okCalls' = [okCalls EXCEPT ![idx[t] + 1] = @ + 1]
            /\ given' = [given EXCEPT ![idx[t] + 1] = val[t]]
       ELSE /\ ret' = RetBy(t, "try_write", "Err", << >>)
            /\ UNCHANGED << elements_written, okCalls, given >>
  /\ pc' = [pc EXCEPT ![t] = "idle"]
  /\ idx' = [idx EXCEPT ![t] = 0]
  /\ val' = [val EXCEPT ![t] = Uninit]
  /\ once_check' = [once_check EXCEPT ![t] = FALSE]
  /\ Quiet
  /\ UNCHANGED << vec, once, needs_drop, capacity, seen, released, origin, aborted,
                  dropped >>

\* The steps of thread t inside try_write.
ThreadStep(t) ==
  \/ CallOnceBegin(t)
  \/ CallOnceCompleted(t)
  \/ Closure(t)
  \/ CallOnceFinish(t)
  \/ TryWriteReturn(t)

----------------------------------------------------------------------------
\* as_slice(&self): callable by any thread while try_write calls of other
\* threads are in flight.  The check is one relaxed load of the counter, which
\* orders nothing: a slot whose store does not happen-before the read is read
\* in a data race, and the read yields the stored value or the stale content.

SliceReads(t) ==
  {d \in [1..Len(vec) -> Values \cup {Uninit}] :
     \A k \in 1..Len(vec) :
       \/ d[k] = vec[k]
       \/ (k - 1) \notin seen[t] /\ d[k] = Uninit}

AsSlice(t) ==
  /\ Alive
  /\ pc[t] = "idle"
  /\ IF ~is_fully_written
       THEN ret' = RetBy(t, "as_slice", "Err", << >>)
       ELSE \E d \in SliceReads(t) : ret' = RetBy(t, "as_slice", "Ok", d)
  /\ Quiet
  /\ UNCHANGED << container, needs_drop, capacity, pc, idx, val, once_check, seen,
                  released, ghost, aborted, dropped >>

----------------------------------------------------------------------------
\* Operations on `&mut self` and `self`.  Exclusive access is handed over with
\* synchronization, so afterwards every thread sees every set slot.

\* Vec grows its buffer when an element is added to a full one: the new
\* capacity is at least the length needed, and a buffer that is large enough is
\* kept as it is.
Grown(need) ==
  IF need <= capacity THEN {capacity} ELSE need..MaxCapacity

Exclusive(o) ==
  /\ seen' = [t \in Threads |-> SetSlots(o)]
  /\ released' = [k \in 1..Len(o) |->
                    IF is_completed(o[k]) THEN SetSlots(o) ELSE {}]
  /\ uninit_dropped' = FALSE
  /\ UNCHANGED << pc, idx, val, once_check, needs_drop, aborted >>

\* An exclusive operation that panics before it changes anything.
Panics(op, a) ==
  /\ ret' = Ret(op, a, "Panic", Uninit)
  /\ Exclusive(once)
  /\ leaked' = FALSE
  /\ UNCHANGED << container, capacity, ghost, dropped >>

\* reserve(additional): Vec::reserve on the storage and on the gates.  The
\* capacity afterwards is at least len + additional, and a buffer that is
\* already large enough is kept.  capacity() reads the storage's buffer; the
\* gates' buffer is reserved by the same call and read by no operation.
\* Vec::reserve panics, before it changes anything, when the capacity asked for
\* is more than a Vec can have; MaxCapacity stands for that limit.
Reserve(additional) ==
  /\ Alive /\ AllIdle
  /\ IF Len(vec) + additional > MaxCapacity
       THEN Panics("reserve", << additional >>)
       ELSE /\ capacity' \in Grown(Len(vec) + additional)
            /\ ret' = Ret("reserve", << additional >>, "Unit", Uninit)
            /\ Exclusive(once)
            /\ leaked' = FALSE
            /\ UNCHANGED << container, ghost, dropped >>

\* reserve_exact(additional): the buffer grows to exactly len + additional
\* when it is smaller than that.
ReserveExact(additional) ==
  /\ Alive /\ AllIdle
  /\ IF Len(vec) + additional > MaxCapacity
       THEN Panics("reserve_exact", << additional >>)
       ELSE /\ capacity' = IF Len(vec) + additional <= capacity
                              THEN capacity
                              ELSE Len(vec) + additional
            /\ ret' = Ret("reserve_exact", << additional >>, "Unit", Uninit)
            /\ Exclusive(once)
            /\ leaked' = FALSE
            /\ UNCHANGED << container, ghost, dropped >>

\* try_reserve(additional) and try_reserve_exact(additional) are `todo!()`,
\* which panics.
TryReserve(additional) ==
  /\ Alive /\ AllIdle
  /\ Panics("try_reserve", << additional >>)

TryReserveExact(additional) ==
  /\ Alive /\ AllIdle
  /\ Panics("try_reserve_exact", << additional >>)

\* Faulty variant of ShrinkToFit that cuts the buffer below the slots in use.
ShrinkToFit_BelowLen ==
  /\ Alive /\ AllIdle
  /\ capacity' = 0
  /\ ret' = Ret("shrink_to_fit", << >>, "Unit", Uninit)
  /\ Exclusive(once)
  /\ leaked' = FALSE
  /\ UNCHANGED << container, ghost, dropped >>

\* shrink_to_fit(): Vec::shrink_to_fit on the storage and on the gates; the
\* buffer is cut down to the slots in use.
ShrinkToFit ==
  /\ Alive /\ AllIdle
  /\ capacity' = Len(vec)
  /\ ret' = Ret("shrink_to_fit", << >>, "Unit", Uninit)
  /\ Exclusive(once)
  /\ leaked' = FALSE
  /\ UNCHANGED << container, ghost, dropped >>

\* shrink_to(min_capacity): the body calls shrink_to_fit on both vectors and
\* never reads min_capacity.
ShrinkTo(min_capacity) ==
  /\ Alive /\ AllIdle
  /\ capacity' = Len(vec)
  /\ ret' = Ret("shrink_to", << min_capacity >>, "Unit", Uninit)
  /\ Exclusive(once)
  /\ leaked' = FALSE
  /\ UNCHANGED << container, ghost, dropped >>

\* Faulty variant of Insert without the fetch_add.
Insert_NoCount(i, v) ==
  /\ Alive /\ AllIdle
  /\ IF i > Len(vec)
       THEN Panics("insert", << i, v >>)
       ELSE /\ Len(vec) < MaxLen
            /\ capacity' \in Grown(Len(vec) + 1)
            /\ vec' = InsertAt(vec, i, v)
            /\ once' = InsertAt(once, i, "COMPLETE")
            /\ UNCHANGED elements_written
            /\ okCalls' = InsertAt(okCalls, i, 0)
            /\ given' = InsertAt(given, i, v)
            /\ origin' = InsertAt(origin, i, "init")
            /\ ret' = Ret("insert", << i, v >>, "Unit", Uninit)
            /\ Exclusive(once')
            /\ leaked' = FALSE
  /\ UNCHANGED dropped

\* insert(index, element): Vec::insert panics when index > len.
Insert(i, v) ==
  /\ Alive /\ AllIdle
  /\ IF i > Len(vec)
       THEN Panics("insert", << i, v >>)
       ELSE /\ Len(vec) < MaxLen
            /\ capacity' \in Grown(Len(vec) + 1)
            /\ vec' = InsertAt(vec, i, v)
            /\ once' = InsertAt(once, i, "COMPLETE")
            /\ elements_written' = elements_written + 1
            /\ okCalls' = InsertAt(okCalls, i, 0)
            /\ given' = InsertAt(given, i, v)
            /\ origin' = InsertAt(origin, i, "init")
            /\ ret' = Ret("insert", << i, v >>, "Unit", Uninit)
            /\ Exclusive(once')
            /\ leaked' = FALSE
  /\ UNCHANGED dropped

\* Faulty variant of InsertUninit that puts the new gate at the end.
InsertUninit_GateAtEnd(i) ==
  /\ Alive /\ AllIdle
  /\ IF i > Len(vec)
       THEN Panics("insert_uninit", << i >>)
       ELSE /\ Len(vec) < MaxLen
            /\ capacity' \in Grown(Len(vec) + 1)
            /\ vec' = InsertAt(vec, i, Uninit)
            /\ once' = Append(once, "INCOMPLETE")
            /\ UNCHANGED elements_written
            /\ okCalls' = InsertAt(okCalls, i, 0)
            /\ given' = InsertAt(given, i, Uninit)
            /\ origin' = InsertAt(origin, i, "uninit")
            /\ ret' = Ret("insert_uninit", << i >>, "Unit", Uninit)
            /\ Exclusive(once')
            /\ leaked' = FALSE
  /\ UNCHANGED dropped

\* insert_uninit(index, element): the placeholder holds no T.
InsertUninit(i) ==
  /\ Alive /\ AllIdle
  /\ IF i > Len(vec)
       THEN Panics("insert_uninit", << i >>)
       ELSE /\ Len(vec) < MaxLen
            /\ capacity' \in Grown(Len(vec) + 1)
            /\ vec' = InsertAt(vec, i, Uninit)
            /\ once' = InsertAt(once, i, "INCOMPLETE")
            /\ UNCHANGED elements_written
            /\ okCalls' = InsertAt(okCalls, i, 0)
            /\ given' = InsertAt(given, i, Uninit)
            /\ origin' = InsertAt(origin, i, "uninit")
            /\ ret' = Ret("insert_uninit", << i >>, "Unit", Uninit)
            /\ Exclusive(once')
            /\ leaked' = FALSE
  /\ UNCHANGED dropped

\* Faulty variant of Remove without the fetch_sub.
Remove_NoCount(i) ==
  /\ Alive /\ AllIdle
  /\ IF i >= Len(vec)
       THEN Panics("remove", << i >>)
       ELSE /\ vec' = RemoveAt(vec, i)
            /\ UNCHANGED capacity
            /\ once' = RemoveAt(once, i)
            /\ IF is_completed(once[i + 1])
                 THEN /\ UNCHANGED elements_written
                      /\ ret' = Ret("remove", << i >>, "Some", vec[i + 1])
                 ELSE /\ UNCHANGED elements_written
                      /\ ret' = Ret("remove", << i >>, "NoneOpt", Uninit)
            /\ okCalls' = RemoveAt(okCalls, i)
            /\ given' = RemoveAt(given, i)
            /\ origin' = RemoveAt(origin, i)
            /\ Exclusive(once')
            /\ leaked' = FALSE
  /\ UNCHANGED dropped

\* Faulty variant of Remove that answers an index past the end with None.
Remove_LenientIndex(i) ==
  /\ Alive /\ AllIdle
  /\ IF i >= Len(vec)
       THEN /\ ret' = Ret("remove", << i >>, "NoneOpt", Uninit)
            /\ UNCHANGED << container, ghost >>
       ELSE /\ vec' = RemoveAt(vec, i)
            /\ once' = RemoveAt(once, i)
            /\ IF is_completed(once[i + 1])
                 THEN /\ elements_written' = elements_written - 1
                      /\ ret' = Ret("remove", << i >>, "Some", vec[i + 1])
                 ELSE /\ UNCHANGED elements_written
                      /\ ret' = Ret("remove", << i >>, "NoneOpt", Uninit)
            /\ okCalls' = RemoveAt(okCalls, i)
            /\ given' = RemoveAt(given, i)
            /\ origin' = RemoveAt(origin, i)
  /\ Exclusive(once')
  /\ leaked' = FALSE
  /\ UNCHANGED << capacity, dropped >>

\* remove(index): Vec::remove panics when index >= len.  A set slot's value is
\* returned; an unset slot's placeholder is discarded without a destructor.
Remove(i) ==
  /\ Alive /\ AllIdle
  /\ IF i >= Len(vec)
       THEN Panics("remove", << i >>)
       ELSE /\ vec' = RemoveAt(vec, i)
            /\ UNCHANGED capacity
            /\ once' = RemoveAt(once, i)
            /\ IF is_completed(once[i + 1])
                 THEN /\ elements_written' = elements_written - 1
                      /\ ret' = Ret("remove", << i >>, "Some", vec[i + 1])
                 ELSE /\ UNCHANGED elements_written
                      /\ ret' = Ret("remove", << i >>, "NoneOpt", Uninit)
            /\ okCalls' = RemoveAt(okCalls, i)
            /\ given' = RemoveAt(given, i)
            /\ origin' = RemoveAt(origin, i)
            /\ Exclusive(once')
            /\ leaked' = FALSE
  /\ UNCHANGED dropped

\* Faulty variant of RemoveUninit that runs the fetch_sub whatever the gate says.
RemoveUninit_AlwaysCounts(i) ==
  /\ Alive /\ AllIdle
  /\ IF i >= Len(vec)
       THEN Panics("remove_uninit", << i >>)
       ELSE /\ vec' = RemoveAt(vec, i)
            /\ UNCHANGED capacity
            /\ once' = RemoveAt(once, i)
            /\ elements_written' = elements_written - 1
            /\ ret' = Ret("remove_uninit", << i >>, "Raw", vec[i + 1])
            /\ okCalls' = RemoveAt(okCalls, i)
            /\ given' = RemoveAt(given, i)
            /\ origin' = RemoveAt(origin, i)
            /\ Exclusive(once')
            /\ leaked' = FALSE
  /\ UNCHANGED dropped

\* remove_uninit(index): hands the raw placeholder back whatever the gate says.
RemoveUninit(i) ==
  /\ Alive /\ AllIdle
  /\ IF i >= Len(vec)
       THEN Panics("remove_uninit", << i >>)
       ELSE /\ vec' = RemoveAt(vec, i)
            /\ UNCHANGED capacity
            /\ once' = RemoveAt(once, i)
            /\ elements_written' =
                 IF is_completed(once[i + 1]) THEN elements_written - 1
                                              ELSE elements_written
            /\ ret' = Ret("remove_uninit", << i >>, "Raw", vec[i + 1])
            /\ okCalls' = RemoveAt(okCalls, i)
            /\ given' = RemoveAt(given, i)
            /\ origin' = RemoveAt(origin, i)
            /\ Exclusive(once')
            /\ leaked' = FALSE
  /\ UNCHANGED dropped

\* push(value)
Push(v) ==
  /\ Alive /\ AllIdle
  /\ Len(vec) < MaxLen
  /\ capacity' \in Grown(Len(vec) + 1)
  /\ vec' = Append(vec, v)
  /\ once' = Append(once, "COMPLETE")
  /\ elements_written' = elements_written + 1
  /\ okCalls' = Append(okCalls, 0)
  /\ given' = Append(given, v)
  /\ origin' = Append(origin, "init")
  /\ ret' = Ret("push", << v >>, "Unit", Uninit)
  /\ Exclusive(once')
  /\ leaked' = FALSE
  /\ UNCHANGED dropped

\* push_uninit(value)
PushUninit ==
  /\ Alive /\ AllIdle
  /\ Len(vec) < MaxLen
  /\ capacity' \in Grown(Len(vec) + 1)
  /\ vec' = Append(vec, Uninit)
  /\ once' = Append(once, "INCOMPLETE")
  /\ UNCHANGED elements_written
  /\ okCalls' = Append(okCalls, 0)
  /\ given' = Append(given, Uninit)
  /\ origin' = Append(origin, "uninit")
  /\ ret' = Ret("push_uninit", << >>, "Unit", Uninit)
  /\ Exclusive(once')
  /\ leaked' = FALSE
  /\ UNCHANGED dropped

\* pop(): None on an empty container and on an unset last slot.
Pop ==
  /\ Alive /\ AllIdle
  /\ IF Len(once) = 0
       THEN /\ ret' = Ret("pop", << >>, "NoneOpt", Uninit)
            /\ UNCHANGED << container, ghost >>
       ELSE /\ vec' = RemoveAt(vec, Len(vec) - 1)
            /\ once' = RemoveAt(once, Len(once) - 1)
            /\ IF is_completed(once[Len(once)])
                 THEN /\ elements_written' = elements_written - 1
                      /\ ret' = Ret("pop", << >>, "Some", vec[Len(vec)])
                 ELSE /\ UNCHANGED elements_written
                      /\ ret' = Ret("pop", << >>, "NoneOpt", Uninit)
            /\ okCalls' = RemoveAt(okCalls, Len(okCalls) - 1)
            /\ given' = RemoveAt(given, Len(given) - 1)
            /\ origin' = RemoveAt(origin, Len(origin) - 1)
  /\ Exclusive(once')
  /\ leaked' = FALSE
  /\ UNCHANGED << capacity, dropped >>

\* pop_uninit(): `val.unwrap()` panics on an empty container, after both pops
\* returned None and changed nothing.
PopUninit ==
  /\ Alive /\ AllIdle
  /\ IF Len(once) = 0
       THEN Panics("pop_uninit", << >>)
       ELSE /\ vec' = RemoveAt(vec, Len(vec) - 1)
            /\ UNCHANGED capacity
            /\ once' = RemoveAt(once, Len(once) - 1)
            /\ elements_written' =
                 IF is_completed(once[Len(once)]) THEN elements_written - 1
                                                  ELSE elements_written
            /\ ret' = Ret("pop_uninit", << >>, "Raw", vec[Len(vec)])
            /\ okCalls' = RemoveAt(okCalls, Len(okCalls) - 1)
            /\ given' = RemoveAt(given, Len(given) - 1)
            /\ origin' = RemoveAt(origin, Len(origin) - 1)
            /\ Exclusive(once')
            /\ leaked' = FALSE
  /\ UNCHANGED dropped

\* Faulty variant of Truncate that keeps the old counter.
Truncate_KeepCount(len) ==
  /\ Alive /\ AllIdle
  /\ IF len >= Len(vec)
       THEN /\ leaked' = FALSE
            /\ UNCHANGED << container, ghost >>
       ELSE /\ vec' = TruncateTo(vec, len)
            /\ once' = TruncateTo(once, len)
            /\ UNCHANGED elements_written
            /\ okCalls' = TruncateTo(okCalls, len)
            /\ given' = TruncateTo(given, len)
            /\ origin' = TruncateTo(origin, len)
            /\ leaked' = (needs_drop /\
                            \E k \in (len + 1)..Len(once) : is_completed(once[k]))
  /\ ret' = Ret("truncate", << len >>, "Unit", Uninit)
  /\ Exclusive(once')
  /\ UNCHANGED << capacity, dropped >>

\* truncate(len): Vec::truncate drops the cells UnsafeCell<MaybeUninit<T>>,
\* which runs no destructor of T; the counter is recomputed from the gates kept.
Truncate(len) ==
  /\ Alive /\ AllIdle
  /\ IF len >= Len(vec)
       THEN /\ leaked' = FALSE
            /\ UNCHANGED << container, ghost >>
       ELSE /\ vec' = TruncateTo(vec, len)
            /\ once' = TruncateTo(once, len)
            /\ elements_written' = elements_written_until(len)
            /\ okCalls' = TruncateTo(okCalls, len)
            /\ given' = TruncateTo(given, len)
            /\ origin' = TruncateTo(origin, len)
            /\ leaked' = (needs_drop /\
                            \E k \in (len + 1)..Len(once) : is_completed(once[k]))
  /\ ret' = Ret("truncate", << len >>, "Unit", Uninit)
  /\ Exclusive(once')
  /\ UNCHANGED << capacity, dropped >>

\* Faulty variant of AsMutSlice whose assignment fills the whole view.
AsMutSlice_Fill(i, v) ==
  /\ Alive /\ AllIdle
  /\ IF ~is_fully_written
       THEN /\ ret' = Ret("as_mut_slice", << >>, "Err", Uninit)
            /\ UNCHANGED << container, ghost >>
       ELSE /\ IF i < Len(vec)
                 THEN /\ ret' = Ret("as_mut_slice", << i, v >>, "Ok", Uninit)
                      /\ vec' = [k \in 1..Len(vec) |-> v]
                      /\ given' = [k \in 1..Len(vec) |-> v]
                 ELSE /\ ret' = Ret("as_mut_slice", << >>, "Ok", Uninit)
                      /\ UNCHANGED << vec, given >>
            /\ UNCHANGED << once, elements_written, okCalls, origin >>
  /\ Exclusive(once')
  /\ leaked' = FALSE
  /\ UNCHANGED << capacity, dropped >>

\* as_mut_slice(), and the caller assigning v at index i of the view it got
\* (`once_vec.as_mut_slice().unwrap()[5] = 0.40`): the assignment destroys the
\* old value of the slot, which is set, and stores the new one.  With i beyond
\* the view the caller only takes the view.
AsMutSlice(i, v) ==
  /\ Alive /\ AllIdle
  /\ IF ~is_fully_written
       THEN /\ ret' = Ret("as_mut_slice", << >>, "Err", Uninit)
            /\ UNCHANGED << container, ghost >>
       ELSE /\ IF i < Len(vec)
                 THEN /\ ret' = Ret("as_mut_slice", << i, v >>, "Ok", Uninit)
                      /\ vec' = [vec EXCEPT ![i + 1] = v]
                      /\ given' = [given EXCEPT ![i + 1] = v]
                 ELSE /\ ret' = Ret("as_mut_slice", << >>, "Ok", Uninit)
                      /\ UNCHANGED << vec, given >>
            /\ UNCHANGED << once, elements_written, okCalls, origin >>
  /\ Exclusive(once')
  /\ leaked' = FALSE
  /\ UNCHANGED << capacity, dropped >>

\* as_vec(self): consumes the container.  When it is fully written the values
\* go to the Vec<T> returned; otherwise `self` is dropped at the end of the call.
AsVec ==
  /\ Alive /\ AllIdle
  /\ IF ~is_fully_written
       THEN /\ ret' = Ret("as_vec", << >>, "Err", Uninit)
            /\ leaked' = (needs_drop /\ SetSlots(once) # {})
       ELSE /\ ret' = RetData("as_vec", "Ok", vec)
            /\ leaked' = FALSE
  /\ dropped' = TRUE
  /\ Exclusive(once)
  /\ UNCHANGED << container, capacity, ghost >>

\* Dropping the container: OnceVec has no Drop impl, so the fields are dropped
\* as they are, and MaybeUninit<T> never runs T's destructor.
DropContainer ==
  /\ Alive /\ AllIdle
  /\ leaked' = (needs_drop /\ SetSlots(once) # {})
  /\ dropped' = TRUE
  /\ ret' = Ret("drop", << >>, "Unit", Uninit)
  /\ Exclusive(once)
  /\ UNCHANGED << container, capacity, ghost >>

----------------------------------------------------------------------------
Next ==
  \/ \E t \in Threads, i \in Indices, v \in Values : TryWriteCall(t, i, v)
  \/ \E t \in Threads : CallOnceBegin(t)
  \/ \E t \in Threads : CallOnceCompleted(t)
  \/ \E t \in Threads : Closure(t)
  \/ \E t \in Threads : CallOnceFinish(t)
  \/ \E t \in Threads : TryWriteReturn(t)
  \/ \E t \in Threads : AsSlice(t)
  \/ \E i \in Indices, v \in Values : Insert(i, v)
  \/ \E i \in Indices : InsertUninit(i)
  \/ \E i \in Indices : Remove(i)
  \/ \E i \in Indices : RemoveUninit(i)
  \/ \E v \in Values : Push(v)
  \/ PushUninit
  \/ Pop
  \/ PopUninit
  \/ \E len \in Indices : Truncate(len)
  \/ \E i \in Indices, v \in Values : AsMutSlice(i, v)
  \/ AsVec
  \/ DropContainer
  \/ \E additional \in 0..MaxCapacity : Reserve(additional)
  \/ \E additional \in 0..MaxCapacity : ReserveExact(additional)
  \/ \E additional \in 0..MaxCapacity : TryReserve(additional)
  \/ \E additional \in 0..MaxCapacity : TryReserveExact(additional)
  \/ ShrinkToFit
  \/ \E min_capacity \in 0..MaxCapacity : ShrinkTo(min_capacity)

Spec == Init /\ [][Next]_vars

\* Threads are preemptible and scheduled fairly: a step of try_write that
\* stays enabled is eventually taken.
FairSpec == Spec /\ \A t \in Threads : WF_vars(ThreadStep(t))

\* Fairness and a T without drop glue: every try_write call returns.
TryWriteTerminatesWithoutDropGlue ==
  \A t \in Threads : (~needs_drop /\ pc[t] # "idle") ~> (pc[t] = "idle")

----------------------------------------------------------------------------
\* Vocabulary of the properties.

Slots == 1..Len(once)

InFlightOn(k) == \E t \in Threads : pc[t] # "idle" /\ idx[t] = k - 1

\* try_write calls whose gate is set and whose fetch_add has not run yet.
Pending == {t \in Threads : pc[t] = "check" /\ once_check[t]}

\* A call of t that can no longer run the closure: it has not run it and the
\* gate of its index is set.
Rejected(t) ==
  /\ pc[t] \in {"call_once", "check"}
  /\ ~once_check[t]
  /\ is_completed(once[idx[t] + 1])

ViewReturned(r) ==
  r.kind = "Ok" /\ r.op \in {"as_slice", "as_mut_slice", "as_vec"}

----------------------------------------------------------------------------
\* C1: of the try_write calls racing on one index exactly one returns Ok, the
\* others return Err, and the slot holds the value of the call that returned
\* Ok.  (Every return is Ok or Err, so "at most one Ok" makes the others Err;
\* that every call does return is C9's matter.)
ExactlyOneWriterWins ==
  /\ \A k \in Slots :
       /\ okCalls[k] <= 1
       /\ okCalls[k] = 1 => is_completed(once[k]) /\ vec[k] = given[k]
       /\ (origin[k] = "uninit" /\ is_completed(once[k]) /\ ~InFlightOn(k))
            => okCalls[k] = 1
  /\ \A t \in Threads :
       (pc[t] = "check" /\ ~once_check[t]) => is_completed(once[idx[t] + 1])

\* The winner has just returned Ok while a loser with another value is still
\* inside its call on the same index.
RaceDecided ==
  /\ ret.op = "try_write" /\ ret.kind = "Ok"
  /\ \E t \in Threads :
       /\ pc[t] = "check" /\ ~once_check[t]
       /\ okCalls[idx[t] + 1] = 1
       /\ vec[idx[t] + 1] = given[idx[t] + 1]
       /\ val[t] # vec[idx[t] + 1]

\* C2: a whole-array view (as_slice, as_mut_slice, as_vec) that succeeds covers
\* only slots whose gate is set and whose value is stored, also while try_write
\* calls of other threads are in flight.
ViewOnlyWhenAllSet ==
  ViewReturned(ret) =>
    \A k \in Slots : is_completed(once[k]) /\ vec[k] # Uninit

\* as_slice succeeded on a non-empty container while another thread is inside
\* try_write.
ViewDuringWrites ==
  /\ ret.op = "as_slice" /\ ret.kind = "Ok"
  /\ Len(once) = MaxLen
  /\ \E t \in Threads : pc[t] # "idle"

\* C3 as stated: elements_written equals the number of set gates in every
\* state, also between a try_write's gate flip and its return.
CountEqualsSetGates ==
  elements_written = Cardinality(SetSlots(once))

\* C3 amended: elements_written plus the number of try_write calls that have
\* set their gate and not yet run fetch_add equals the number of set gates.
CountPlusPendingEqualsSetGates ==
  elements_written + Cardinality(Pending) = Cardinality(SetSlots(once))

\* A counted slot beside a slot whose gate is set and not yet counted.
CountLagsBehindGate ==
  /\ Pending # {}
  /\ elements_written >= 1
  /\ \E k \in Slots : origin[k] = "init"

\* C4: a thread that observes the counter as including a write (a successful
\* as_slice) sees the value stored by that write.
SliceSeesStoredValues ==
  (ret.op = "as_slice" /\ ret.kind = "Ok") =>
    \A k \in Slots : ret.data[k] = vec[k]

\* C5: as_slice and as_vec return the error exactly when elements_written is
\* below the length, they never panic, and elements_written never exceeds the
\* length.
NotFullyWrittenIffBelowLen ==
  /\ elements_written <= Len(once)
  /\ ret.op \in {"as_slice", "as_vec"} =>
       /\ ret.kind \in {"Ok", "Err"}
       /\ ret.kind = "Err" <=> elements_written < Len(once)

\* as_vec failed on a container that lacks one write.
AsVecRefused ==
  /\ ret.op = "as_vec" /\ ret.kind = "Err"
  /\ Len(once) = MaxLen
  /\ elements_written = Len(once) - 1

NoValueLeaked == ~leaked

\* C8: T's destructor never runs on the storage of a slot whose gate is not
\* set; the committing write of try_write does not destroy the slot's
\* uninitialized content.
NoUninitDestroyed == ~uninit_dropped

\* C9: every try_write call returns.
TryWriteTerminates ==
  \A t \in Threads : (pc[t] # "idle") ~> (pc[t] = "idle")

\* C10: a try_write on a slot whose gate is set changes nothing in the
\* container and returns Err: no step of it changes storage, gates or counter,
\* it never runs the closure, and its return is the error.
RejectedWriteChangesNothing ==
  [][\A t \in Threads :
       /\ (pc[t] = "idle" /\ pc'[t] # "idle" /\ is_completed(once[idx'[t] + 1]))
            => (container' = container /\ Rejected(t)')
       /\ (Rejected(t) /\ pc'[t] # pc[t])
            => /\ container' = container
               /\ pc'[t] # "idle" => Rejected(t)'
               /\ pc'[t] = "idle" => ret' = RetBy(t, "try_write", "Err", << >>)]_vars

\* try_write has just returned Err on a container whose slots were all set by
\* insert or push.
WriteOnInsertedSlotRejected ==
  /\ ret.op = "try_write" /\ ret.kind = "Err"
  /\ Len(once) >= 1
  /\ \A k \in Slots : origin[k] = "init" /\ vec[k] = given[k]
  /\ elements_written = Len(once)

----------------------------------------------------------------------------
\* Relations between the container before and after one step.

\* The slot at index i is gone: the slots before it keep their index, value and
\* gate, the slots after it have moved down by one with value and gate.
SlotRemovedAt(i) ==
  /\ Len(vec') = Len(vec) - 1
  /\ Len(once') = Len(once) - 1
  /\ \A j \in 0..(Len(vec) - 1) :
       /\ j < i => vec'[j + 1] = vec[j + 1] /\ once'[j + 1] = once[j + 1]
       /\ j > i => vec'[j] = vec[j + 1] /\ once'[j] = once[j + 1]

\* The counter went down by one when the gate of the slot at i was set, and
\* stayed otherwise.
CountFollowsRemovalAt(i) ==
  elements_written' =
    IF is_completed(once[i + 1]) THEN elements_written - 1 ELSE elements_written

\* remove and pop hand back the value of a set slot and nothing of an unset one.
ReturnsStoredAt(i) ==
  IF is_completed(once[i + 1])
    THEN ret'.kind = "Some" /\ ret'.value = vec[i + 1]
    ELSE ret'.kind = "NoneOpt"

\* C11: remove(i) with i in bounds returns the stored value of a set slot and
\* takes one off the counter, returns nothing of an unset slot and keeps the
\* counter; the length goes down by one, the slots after i move down by one with
\* value and gate, the slots before i stay.  remove_uninit, and pop and
\* pop_uninit on a container with slots (at the last index), move the slots and
\* adjust the counter by the same rule.
RemoveShiftsAndCounts ==
  [][/\ (ret'.op \in {"remove", "remove_uninit"} /\ ret'.kind # "Panic")
          => /\ ret'.arg[1] < Len(vec)
             /\ SlotRemovedAt(ret'.arg[1])
             /\ CountFollowsRemovalAt(ret'.arg[1])
             /\ ret'.op = "remove" => ReturnsStoredAt(ret'.arg[1])
     /\ (ret'.op \in {"pop", "pop_uninit"} /\ Len(once) > 0)
          => /\ ret'.kind # "Panic"
             /\ SlotRemovedAt(Len(vec) - 1)
             /\ CountFollowsRemovalAt(Len(vec) - 1)
             /\ ret'.op = "pop" => ReturnsStoredAt(Len(vec) - 1)]_vars

\* remove(0) has just returned the value of a set slot, and the set slot that
\* was behind it is now at index 0.
RemovedSetSlotInFront ==
  /\ ret.op = "remove" /\ ret.kind = "Some" /\ ret.arg = << 0 >>
  /\ Len(vec) = 1
  /\ is_completed(once[1])
  /\ elements_written = 1

\* C12: truncate(k) leaves the counter at the number of set gates among the
\* first k slots of the container it was called on, the length at the smaller
\* of k and the old length, and value and gate of every slot below the new
\* length as they were; with k at or above the length nothing changes.
TruncateRecounts ==
  [][ret'.op = "truncate"
       => LET k == ret'.arg[1]
              n == Min(k, Len(vec))
          IN  /\ Len(vec') = n
              /\ Len(once') = n
              /\ \A j \in 1..n : vec'[j] = vec[j] /\ once'[j] = once[j]
              /\ elements_written' =
                   Cardinality({j \in 1..n : is_completed(once[j])})
              /\ k >= Len(vec) => container' = container]_vars

\* truncate(1) has just cut a set slot off and kept a set slot.
TruncateCutSetSlot ==
  /\ ret.op = "truncate" /\ ret.arg = << 1 >>
  /\ leaked
  /\ Len(vec) = 1
  /\ is_completed(once[1])
  /\ elements_written = 1

\* A slot has appeared at index i: the slots before it keep their index, value
\* and gate, the slots from i on have moved up by one with value and gate.
SlotInsertedAt(i) ==
  /\ Len(vec') = Len(vec) + 1
  /\ Len(once') = Len(once) + 1
  /\ \A j \in 0..(Len(vec) - 1) :
       /\ j < i => vec'[j + 1] = vec[j + 1] /\ once'[j + 1] = once[j + 1]
       /\ j >= i => vec'[j + 2] = vec[j + 1] /\ once'[j + 2] = once[j + 1]

\* The new slot at i is set and holds v, and the counter went up by one.
NewSlotSet(i, v) ==
  /\ vec'[i + 1] = v
  /\ is_completed(once'[i + 1])
  /\ elements_written' = elements_written + 1

\* The new slot at i is unset, and the counter stayed.
NewSlotUnset(i) ==
  /\ ~is_completed(once'[i + 1])
  /\ elements_written' = elements_written

\* C13: insert(index, value) with index <= len makes a set slot at index that
\* holds the value, adds one to the counter and moves every slot from index on
\* up by one with value and gate; insert_uninit moves the slots the same way,
\* makes an unset slot and keeps the counter; push and push_uninit do what
\* insert and insert_uninit do at index len.
InsertShiftsAndCounts ==
  [][/\ (ret'.op = "insert" /\ ret'.kind # "Panic")
          => /\ ret'.arg[1] <= Len(vec)
             /\ SlotInsertedAt(ret'.arg[1])
             /\ NewSlotSet(ret'.arg[1], ret'.arg[2])
     /\ (ret'.op = "insert_uninit" /\ ret'.kind # "Panic")
          => /\ ret'.arg[1] <= Len(vec)
             /\ SlotInsertedAt(ret'.arg[1])
             /\ NewSlotUnset(ret'.arg[1])
     /\ ret'.op = "push"
          => SlotInsertedAt(Len(vec)) /\ NewSlotSet(Len(vec), ret'.arg[1])
     /\ ret'.op = "push_uninit"
          => SlotInsertedAt(Len(vec)) /\ NewSlotUnset(Len(vec))]_vars

\* insert(0, 1) has just put a set slot in front of a set slot that holds 2.
InsertedInFrontOfSetSlot ==
  /\ ret.op = "insert" /\ ret.kind = "Unit" /\ ret.arg = << 0, 1 >>
  /\ Len(vec) = 2
  /\ vec = << 1, 2 >>
  /\ \A k \in Slots : is_completed(once[k])
  /\ elements_written = 2

\* C14: reserve, reserve_exact, shrink_to_fit and shrink_to leave the length,
\* the counter, every gate and every value as they were, in every state and
\* for every argument, and the capacity afterwards is at least the length.
CapacityCallsKeepSlots ==
  [][ret'.op \in {"reserve", "reserve_exact", "shrink_to_fit", "shrink_to"}
       => /\ container' = container
          /\ capacity' >= Len(vec')]_vars

\* shrink_to(0) has just returned on a container with a set and an unset
\* slot, whose buffer is cut down to the two slots.
ShrunkAroundSlots ==
  /\ ret.op = "shrink_to" /\ ret.arg = << 0 >>
  /\ Len(vec) = 2
  /\ elements_written = 1
  /\ capacity = 2
  /\ origin = << "init", "uninit" >>

\* The index a call on `&mut self` was made with is past what the operation
\* accepts: at or past the length for remove and remove_uninit, past the
\* length for insert and insert_uninit.
IndexOutOfBounds(r) ==
  \/ r.op \in {"remove", "remove_uninit"} /\ r.arg[1] >= Len(vec)
  \/ r.op \in {"insert", "insert_uninit"} /\ r.arg[1] > Len(vec)

\* C15: try_write with an index at or past the length, remove and
\* remove_uninit with an index at or past the length, and insert and
\* insert_uninit with an index past the length panic, and they panic before
\* anything has changed: storage, gates, length and counter are as before the
\* call and storage and gates have the same length.  A try_write that goes on
\* has an index below the length.
OutOfBoundsPanicsUntouched ==
  [][/\ ret'.op \in {"remove", "remove_uninit", "insert", "insert_uninit"}
          => /\ IndexOutOfBounds(ret') <=> ret'.kind = "Panic"
             /\ ret'.kind = "Panic"
                  => container' = container /\ Len(vec') = Len(once')
     /\ (ret'.op = "try_write" /\ ret'.kind = "Panic")
          => container' = container /\ Len(vec') = Len(once') /\ pc' = pc
     /\ \A t \in Threads :
          (pc[t] = "idle" /\ pc'[t] # "idle") => idx'[t] < Len(once)]_vars

\* insert(2, v) has just panicked on a container of one set slot.
InsertPastEndPanicked ==
  /\ ret.op = "insert" /\ ret.kind = "Panic" /\ ret.arg[1] = 2
  /\ Len(vec) = 1 /\ Len(once) = 1
  /\ is_completed(once[1])
  /\ elements_written = 1

\* C16: after any sequence of operations the storage vector and the gate
\* vector have the same length, and the gate at an index is the gate of the
\* value at that index: a slot whose gate is set holds a value, the one it was
\* given once the call that set it is through, and a slot whose gate no call
\* has touched holds none.
GatesPairedWithValues ==
  /\ Len(vec) = Len(once)
  /\ \A k \in Slots :
       /\ is_completed(once[k]) => vec[k] \in Values
       /\ (is_completed(once[k]) /\ \A t \in Pending : idx[t] # k - 1)
            => vec[k] = given[k]
       /\ once[k] = "INCOMPLETE" => vec[k] = Uninit

\* insert_uninit(0) has just put an unset slot in front of a slot that a
\* try_write had set.
UnsetSlotBeforeWrittenSlot ==
  /\ ret.op = "insert_uninit" /\ ret.arg = << 0 >> /\ ret.kind = "Unit"
  /\ Len(vec) = 2
  /\ once = << "INCOMPLETE", "COMPLETE" >>
  /\ okCalls = << 0, 1 >>

\* Where the slot at position k (1-based) is after the step that returned r:
\* one up when a slot was inserted at or before it, one down when a slot before
\* it was removed, 0 when the step removed or cut the slot itself.
PositionAfter(k, r) ==
  CASE r.kind = "Panic" -> k
    [] r.op \in {"insert", "insert_uninit"} ->
         IF r.arg[1] < k THEN k + 1 ELSE k
    [] r.op \in {"push", "push_uninit"} -> k
    [] r.op \in {"remove", "remove_uninit"} ->
         IF r.arg[1] + 1 < k THEN k - 1
         ELSE IF r.arg[1] + 1 = k THEN 0 ELSE k
    [] r.op \in {"pop", "pop_uninit"} -> IF k = Len(once) THEN 0 ELSE k
    [] r.op = "truncate" -> IF k > r.arg[1] THEN 0 ELSE k
    [] OTHER -> k

\* The step was an assignment through the view of as_mut_slice to the slot at
\* position k.
AssignedThroughMutSlice(k, r) ==
  /\ r.op = "as_mut_slice" /\ r.kind = "Ok"
  /\ r.arg # << >>
  /\ r.arg[1] = k - 1

\* C17: a set gate stays set, and the slot keeps its value unless the value is
\* changed through as_mut_slice, across every later step of every operation
\* that does not remove or cut that slot; the slot is followed to the index the
\* operation moves it to.
SetSlotsStaySet ==
  [][\A k \in Slots :
       (is_completed(once[k]) /\ PositionAfter(k, ret') # 0)
         => LET p == PositionAfter(k, ret')
            IN  /\ p \in 1..Len(once')
                /\ is_completed(once'[p])
                /\ vec'[p] = vec[k] \/ AssignedThroughMutSlice(k, ret')]_vars

\* remove_uninit(0) has just moved a slot that a try_write had set with 2 down
\* to index 0, still set and still holding 2.
WrittenSlotMovedDown ==
  /\ ret.op = "remove_uninit" /\ ret.arg = << 0 >> /\ ret.kind = "Raw"
  /\ Len(vec) = 1
  /\ is_completed(once[1])
  /\ vec[1] = 2
  /\ okCalls[1] = 1

\* C18: on a fully written container an assignment through the view of
\* as_mut_slice replaces the value of slot i and of no other slot, changes no
\* gate and not the counter, and an as_slice that follows returns the new value
\* at i, with the values of the storage around it; an as_vec that follows an
\* as_slice that returned the values of the storage returns a sequence of the
\* container's length, equal to it element by element.
MutSliceAssignsOneSlot ==
  [][/\ (ret'.op = "as_mut_slice" /\ ret'.kind = "Ok" /\ ret'.arg # << >>)
          => /\ is_fully_written
             /\ \A k \in Slots : is_completed(once[k])
             /\ vec' = [vec EXCEPT ![ret'.arg[1] + 1] = ret'.arg[2]]
             /\ once' = once
             /\ elements_written' = elements_written
     /\ (ret.op = "as_mut_slice" /\ ret.kind = "Ok" /\ ret'.op = "as_slice")
          => /\ ret'.kind = "Ok"
             /\ ret'.data = vec
             /\ ret.arg # << >> => ret'.data[ret.arg[1] + 1] = ret.arg[2]
     /\ (ret.op = "as_slice" /\ ret.kind = "Ok" /\ ret.data = vec
           /\ ret'.op = "as_vec")
          => /\ ret'.kind = "Ok"
             /\ Len(ret'.data) = Len(once)
             /\ \A k \in Slots : ret'.data[k] = ret.data[k]]_vars

\* The value 2 has just been assigned through as_mut_slice to slot 1 of a
\* container whose two slots try_write had set.
AssignedToWrittenSlot ==
  /\ ret.op = "as_mut_slice" /\ ret.kind = "Ok" /\ ret.arg = << 1, 2 >>
  /\ vec = << 1, 2 >>
  /\ okCalls = << 1, 1 >>
  /\ elements_written = 2

\* C19: under every interleaving the counter is never above the number of set
\* gates (it may be below while a try_write is between its gate and its
\* fetch_add), and whenever no try_write is in flight the two are equal.
CountNeverAheadOfGates ==
  /\ elements_written <= Cardinality(SetSlots(once))
  /\ AllIdle => elements_written = Cardinality(SetSlots(once))

\* Two try_write calls on two slots have returned Ok, the second just now, no
\* call is in flight and the counter has caught up with the two set gates.
CountCaughtUpAfterWrites ==
  /\ AllIdle
  /\ ret.op = "try_write" /\ ret.kind = "Ok"
  /\ okCalls = << 1, 1 >>
  /\ Cardinality(SetSlots(once)) = 2
  /\ elements_written = 2

\* C20: pop and pop_uninit on a container of length 0 return None, without a
\* panic, and leave storage, gates and counter as they were.
PopOnEmptyReturnsNone ==
  [][(ret'.op \in {"pop", "pop_uninit"} /\ Len(once) = 0)
       => /\ ret'.kind = "NoneOpt"
          /\ container' = container]_vars

====
